---- MODULE Spec2Model ----
(***************************************************************************)
(* Step registration and dynamic endpoint synthesis of PromptMage:         *)
(* PromptMageAPI.get_app / create_endpoint_function (src/promptmage/api.py)*)
(* over the step registry and prompt store of a PromptMage instance        *)
(* (used in src/examples/simple_application_with_promptmage.py).           *)
(*                                                                         *)
(* A function is represented by its declared parameter list, as            *)
(* inspect.signature reports it: a sequence of [name, default].  A route   *)
(* path is a sequence of segments instead of a "/"-joined string: step     *)
(* names and parameter names are taken to contain no "/" or braces.        *)
(***************************************************************************)
EXTENDS Naturals, Sequences, FiniteSets, TLC

\* ------------------------------------------------------------------ bounds
MaxParams == 3        \* longest declared parameter list
MaxSigSteps == 1      \* registry size when every signature is enumerated
MaxSteps == 2         \* registry size of the served pipeline

\* ------------------------------------------------------------------ inputs
ParamNames == {"a", "b", "prompt"}
StepNames == {"extract", "summarize", "steps"}
ServedNames == {"extract", "steps"}   \* step names of the larger enumerations
PromptIds == {"extract_facts", "summarize_facts"}
Values == {"x", "y"}           \* values a request can carry
PromptTexts == {"v1", "v2"}    \* contents of a stored prompt
Absent == "<absent>"           \* no prompt stored under the id
Empty == "<empty>"             \* inspect.Parameter.empty
Defaults == {Empty, "1"}       \* no default, or the default value 1

ParameterSpec == [name : ParamNames, default : Defaults]

\* Every declared parameter list of at most n parameters (names are distinct,
\* as Python requires; with keyword-only parameters any mix of defaults is legal).
SignaturesUpTo(n) ==
  UNION { { s \in [1..k -> ParameterSpec] :
              \A i, j \in 1..k : i # j => s[i].name # s[j].name } : k \in 0..n }

Signatures == SignaturesUpTo(MaxParams)

P(n, d) == [name |-> n, default |-> d]

\* The functions of the served pipeline: the example's shape, the two parameter
\* lists the specification names, and `prompt` declared first.
extract_facts == << P("a", Empty), P("prompt", Empty) >>
with_query == << P("a", Empty), P("b", "1"), P("prompt", "1") >>
interleaved == << P("a", "1"), P("b", Empty), P("prompt", Empty) >>
prompt_first == << P("prompt", Empty), P("b", Empty), P("a", Empty) >>
prompt_only == << P("prompt", Empty) >>
PipelineFunctions == {extract_facts, with_query, interleaved, prompt_first, prompt_only}

\* ------------------------------------------------------------------ state
VARIABLES
  steps,        \* mage.steps: registered steps in registration order
  app,          \* the application the last get_app call produced
  promptStore,  \* the Prompt Store: prompt id -> stored prompt, or Absent
  result,       \* what the last operation returned or raised
  calls         \* the step functions run by the last operation

vars == <<steps, app, promptStore, result, calls>>

NoBody == [fn |-> "", bound |-> <<>>]
NoResult ==
  [op |-> "", status |-> 0, error |-> "", url |-> <<>>, query |-> <<>>,
   body |-> NoBody, listing |-> <<>>]

StepNamesOf(reg) == { reg[i].name : i \in 1..Len(reg) }

\* ------------------------------------------------------------------ registry
\* register(name, prompt_id, function): a name already registered fails with
\* DuplicateStepError and changes nothing; the Prompt Store is not consulted.
RegisterResult(reg, name, prompt_id) ==
  IF name \in StepNamesOf(reg) THEN "DuplicateStepError" ELSE ""

\* a registry that lets a later registration replace the entry of its name
RegistryAfterRegister_overwrite(reg, name, prompt_id, func) ==
  IF name \in StepNamesOf(reg)
  THEN [i \in 1..Len(reg) |->
          IF reg[i].name = name
          THEN [name |-> name, prompt_id |-> prompt_id, func |-> func]
          ELSE reg[i]]
  ELSE Append(reg, [name |-> name, prompt_id |-> prompt_id, func |-> func])

RegistryAfterRegister(reg, name, prompt_id, func) ==
  IF name \in StepNamesOf(reg)
  THEN reg
  ELSE Append(reg, [name |-> name, prompt_id |-> prompt_id, func |-> func])

Register(name, prompt_id, func, max) ==
  /\ name \in StepNamesOf(steps) \/ Len(steps) < max
  /\ steps' = RegistryAfterRegister(steps, name, prompt_id, func)
  /\ result' = [NoResult EXCEPT !.op = "register",
                                !.error = RegisterResult(steps, name, prompt_id)]
  /\ calls' = <<>>
  /\ UNCHANGED <<app, promptStore>>

\* ------------------------------------------------------------------ prompt store
\* store_prompt(Prompt): add or replace
StorePrompt(id, text) ==
  /\ promptStore' = [promptStore EXCEPT ![id] = text]
  /\ result' = [NoResult EXCEPT !.op = "store_prompt"]
  /\ calls' = <<>>
  /\ UNCHANGED <<steps, app>>

\* ------------------------------------------------------------------ get_app
Lit(s) == [kind |-> "lit", text |-> s]
Var(s) == [kind |-> "param", text |-> s]

\* the test for a default inverted
NewParam_inverted(p) ==
  IF p.default # Empty
  THEN [name |-> p.name, kind |-> "POSITIONAL_OR_KEYWORD", default |-> "Path(...)"]
  ELSE [name |-> p.name, kind |-> "KEYWORD_ONLY", default |-> p.default]

\* lines 50-68: the rewritten parameter
NewParam(p) ==
  IF p.default = Empty
  THEN [name |-> p.name, kind |-> "POSITIONAL_OR_KEYWORD", default |-> "Path(...)"]
  ELSE [name |-> p.name, kind |-> "KEYWORD_ONLY", default |-> p.default]

\* lines 46-69: one pass over signature.parameters, building path and params
RECURSIVE ParamLoop(_, _)
ParamLoop(decl, acc) ==
  IF decl = <<>> THEN acc
  ELSE LET p == Head(decl) IN
       IF p.name = "prompt" THEN ParamLoop(Tail(decl), acc)
       ELSE ParamLoop(Tail(decl),
              [path |-> IF p.default = Empty
                        THEN Append(acc.path, Var(p.name)) ELSE acc.path,
               params |-> Append(acc.params, NewParam(p))])

\* lines 42-69: path starts as /api/<step_name>, params as []
StepLoop(step_name, decl) ==
  ParamLoop(decl, [path |-> <<Lit("api"), Lit(step_name)>>, params |-> <<>>])

KindRank(k) == IF k = "POSITIONAL_OR_KEYWORD" THEN 1 ELSE 3

\* line 72: signature.replace(parameters=params) validates the parameter order
\* (inspect.Signature: no parameter may follow one of a later kind)
SignatureReplace(params) ==
  IF \E i, j \in 1..Len(params) :
       i < j /\ KindRank(params[i].kind) > KindRank(params[j].kind)
  THEN "ValueError"
  ELSE ""

\* a listing kept across builds instead of started empty
InitialStepList_kept == app.step_list

\* line 40: step_list = []
InitialStepList == <<>>

\* lines 41-80: one route and one step_list entry per step, in registry order;
\* an exception of signature.replace leaves get_app
RECURSIVE StepsLoop(_, _)
StepsLoop(reg, acc) ==
  IF reg = <<>> THEN acc
  ELSE LET s == Head(reg)
           r == StepLoop(s.name, s.func)
       IN IF SignatureReplace(r.params) # ""
          THEN [status |-> "ValueError", routes |-> <<>>, step_list |-> <<>>]
          ELSE StepsLoop(Tail(reg),
                 [status |-> "ok",
                  routes |-> Append(acc.routes,
                               [path |-> r.path, params |-> r.params,
                                endpoint |-> "step", step |-> s.name,
                                func |-> s.func, prompt_id |-> s.prompt_id]),
                  step_list |-> Append(acc.step_list, [name |-> s.name, path |-> r.path])])

\* lines 83-85: the discovery route, added after every step route
ListStepsRoute ==
  [path |-> <<Lit("api"), Lit("steps")>>, params |-> <<>>,
   endpoint |-> "list_steps", step |-> "", func |-> <<>>, prompt_id |-> ""]

NoApp == [status |-> "none", routes |-> <<>>, step_list |-> <<>>]

\* a build that resolves every step's prompt
GetAppResult_eager(reg) ==
  IF \E i \in 1..Len(reg) : promptStore[reg[i].prompt_id] = Absent
  THEN [status |-> "PromptNotFoundError", routes |-> <<>>, step_list |-> <<>>]
  ELSE LET built == StepsLoop(reg, [status |-> "ok", routes |-> <<>>,
                                    step_list |-> InitialStepList])
       IN IF built.status # "ok" THEN built
          ELSE [built EXCEPT !.routes = Append(built.routes, ListStepsRoute)]

\* lines 20-93: get_app
GetAppResult(reg) ==
  LET built == StepsLoop(reg, [status |-> "ok", routes |-> <<>>,
                               step_list |-> InitialStepList])
  IN IF built.status # "ok" THEN built
     ELSE [built EXCEPT !.routes = Append(built.routes, ListStepsRoute)]

GetApp ==
  /\ app' = GetAppResult(steps)
  /\ result' = [NoResult EXCEPT !.op = "get_app",
                  !.error = IF GetAppResult(steps).status = "ok" THEN ""
                            ELSE GetAppResult(steps).status]
  /\ calls' = <<>>
  /\ UNCHANGED <<steps, promptStore>>

\* ------------------------------------------------------------------ a function call
DeclNames(decl) == { decl[i].name : i \in 1..Len(decl) }
DeclIndex(decl, n) == CHOOSE i \in 1..Len(decl) : decl[i].name = n

\* Python's binding of func(*args, **kwargs) to the declared parameters: positional
\* arguments fill the parameters in declaration order, keyword arguments bind by
\* name, a missing parameter takes its default; anything else is a TypeError
\* and the function body does not run.
CallFunction(decl, args, kwargs) ==
  LET positional == { decl[i].name : i \in (1..Len(args)) \cap (1..Len(decl)) }
      given == positional \cup DOMAIN kwargs
  IN IF \/ Len(args) > Len(decl)
        \/ ~(DOMAIN kwargs \subseteq DeclNames(decl))
        \/ positional \cap DOMAIN kwargs # {}
        \/ \E i \in 1..Len(decl) : decl[i].name \notin given /\ decl[i].default = Empty
     THEN [status |-> "TypeError", called |-> <<>>]
     ELSE [status |-> "ok",
           called |-> << [n \in DeclNames(decl) |->
                           IF n \in positional THEN args[DeclIndex(decl, n)]
                           ELSE IF n \in DOMAIN kwargs THEN kwargs[n]
                           ELSE decl[DeclIndex(decl, n)].default] >>]

\* The registered step callable: resolves the bound prompt id in the Prompt Store at
\* call time, then calls the function with `prompt` added to the keyword arguments.
StepCallable(prompt_id, decl, args, kwargs) ==
  IF promptStore[prompt_id] = Absent
  THEN [status |-> "PromptNotFoundError", called |-> <<>>]
  ELSE CallFunction(decl, args,
         [n \in DOMAIN kwargs \cup {"prompt"} |->
            IF n = "prompt" THEN promptStore[prompt_id] ELSE kwargs[n]])

\* ------------------------------------------------------------------ the endpoint
\* an endpoint that passes the received values on by position
EndpointArguments_positional(params, values) ==
  [args |-> [i \in 1..Len(params) |-> values[params[i].name]],
   kwargs |-> [n \in {} |-> ""]]

\* The web layer calls the endpoint with keyword arguments only;
\* lines 97-99: endpoint(*args, **kwargs) passes both on unchanged.
EndpointArguments(params, values) == [args |-> <<>>, kwargs |-> values]

\* an endpoint that swallows the exception and answers with an empty result
EndpointOutcome_swallowed(outcome) ==
  IF outcome.status = "ok" THEN outcome ELSE [status |-> "ok", called |-> <<>>]

\* line 99: return func(*args, **kwargs); an exception of func leaves the endpoint
EndpointOutcome(outcome) == outcome

\* lines 95-101
Endpoint(route, values) ==
  LET passed == EndpointArguments(route.params, values) IN
  EndpointOutcome(StepCallable(route.prompt_id, route.func, passed.args, passed.kwargs))

\* ------------------------------------------------------------------ the web layer
PathValueLists == { <<>>, <<"x">>, <<"x", "y">> }
Urls == { <<"api", n>> \o v : n \in ServedNames, v \in PathValueLists }
QueryNames == {"b"}
Queries == UNION { [S -> Values] : S \in SUBSET QueryNames }

\* a route's path matches a URL of the same length whose literal segments agree
Matches(path, url) ==
  /\ Len(path) = Len(url)
  /\ \A i \in 1..Len(path) : path[i].kind = "lit" => path[i].text = url[i]

\* routes are tried in the order they were added; the first match handles the request
Dispatch(routes, url) ==
  IF \E i \in 1..Len(routes) : Matches(routes[i].path, url)
  THEN CHOOSE i \in 1..Len(routes) :
         /\ Matches(routes[i].path, url)
         /\ \A j \in 1..(i - 1) : ~Matches(routes[j].path, url)
  ELSE 0

\* the value the web layer binds to each parameter of the handler's signature:
\* a Path parameter from its URL segment, a Query parameter from the query
\* string or else its default
ReceivedValues(route, url, query) ==
  [n \in { route.params[i].name : i \in 1..Len(route.params) } |->
     LET prm == route.params[CHOOSE i \in 1..Len(route.params) : route.params[i].name = n]
     IN IF prm.kind = "POSITIONAL_OR_KEYWORD"
        THEN url[CHOOSE i \in 1..Len(route.path) : route.path[i] = Var(n)]
        ELSE IF n \in DOMAIN query THEN query[n] ELSE prm.default]

\* the step function's return value: a value determined by the function and the
\* arguments it was called with
ReturnValue(step, bound) == [fn |-> step, bound |-> bound]

Respond(route, url, query) ==
  IF route.endpoint = "list_steps"
  THEN [status |-> 200, error |-> "", body |-> NoBody, listing |-> app.step_list,
        calls |-> <<>>]
  ELSE LET out == Endpoint(route, ReceivedValues(route, url, query)) IN
       IF out.status = "ok"
       THEN [status |-> 200, error |-> "",
             body |-> IF out.called = <<>> THEN NoBody
                      ELSE ReturnValue(route.step, out.called[1]),
             listing |-> <<>>,
             calls |-> [i \in 1..Len(out.called) |->
                          [step |-> route.step, bound |-> out.called[i]]]]
       ELSE [status |-> 500, error |-> out.status, body |-> NoBody, listing |-> <<>>,
             calls |-> <<>>]

\* GET url?query against the built application
Request(url, query) ==
  /\ app.status = "ok"
  /\ LET i == Dispatch(app.routes, url)
         r == IF i = 0
              THEN [status |-> 404, error |-> "Not Found", body |-> NoBody,
                    listing |-> <<>>, calls |-> <<>>]
              ELSE Respond(app.routes[i], url, query)
     IN /\ result' = [op |-> "GET", status |-> r.status, error |-> r.error,
                      url |-> url, query |-> query, body |-> r.body,
                      listing |-> r.listing]
        /\ calls' = r.calls
  /\ UNCHANGED <<steps, app, promptStore>>

\* ------------------------------------------------------------------ specifications
Init ==
  /\ steps = <<>>
  /\ app = NoApp
  /\ promptStore = [id \in PromptIds |-> Absent]
  /\ result = NoResult
  /\ calls = <<>>

\* one registration of any function, and builds
NextSig ==
  \/ \E name \in ServedNames, func \in Signatures :
       Register(name, "extract_facts", func, MaxSigSteps)
  \/ GetApp

SpecSig == Init /\ [][NextSig]_vars

\* the registry under registrations and builds
NextReg ==
  \/ \E name \in StepNames, prompt_id \in PromptIds, func \in PipelineFunctions :
       Register(name, prompt_id, func, MaxSteps)
  \/ GetApp

SpecReg == Init /\ [][NextReg]_vars

\* the served pipeline: registrations, builds, prompt edits and requests in any order
Next ==
  \/ \E name \in ServedNames, prompt_id \in PromptIds, func \in PipelineFunctions :
       Register(name, prompt_id, func, MaxSteps)
  \/ GetApp
  \/ \E id \in PromptIds, text \in PromptTexts : StorePrompt(id, text)
  \/ \E url \in Urls, query \in Queries : Request(url, query)

Spec == Init /\ [][Next]_vars

\* ------------------------------------------------------------------ claims
NonPromptNames(decl) == DeclNames(decl) \ {"prompt"}
NamesOf(seq) == [i \in 1..Len(seq) |-> seq[i].name]
IsRequired(p) == p.name # "prompt" /\ p.default = Empty
IsOptional(p) == p.name # "prompt" /\ p.default # Empty
IsPathParam(q) == q.kind = "POSITIONAL_OR_KEYWORD"
IsQueryParam(q) == q.kind = "KEYWORD_ONLY"
SeqSet(seq) == { seq[i] : i \in 1..Len(seq) }

\* the classification of a declared parameter list, read off the rewritten parameters
PathParamsOf(decl) == NamesOf(SelectSeq(StepLoop("s", decl).params, IsPathParam))
QueryParamsOf(decl) == NamesOf(SelectSeq(StepLoop("s", decl).params, IsQueryParam))

Classified(decl) ==
  /\ PathParamsOf(decl) = NamesOf(SelectSeq(decl, IsRequired))
  /\ QueryParamsOf(decl) = NamesOf(SelectSeq(decl, IsOptional))
  /\ SeqSet(PathParamsOf(decl)) \cap SeqSet(QueryParamsOf(decl)) = {}
  /\ SeqSet(PathParamsOf(decl)) \cup SeqSet(QueryParamsOf(decl)) = NonPromptNames(decl)
  /\ Len(PathParamsOf(decl)) + Len(QueryParamsOf(decl)) = Cardinality(NonPromptNames(decl))

\* C1: for every registered step the parameters other than `prompt` are split into
\* path parameters (exactly those without a default) and query parameters (exactly
\* those with one), disjoint, together all of them, each in declaration order; and
\* every mounted route carries that classification.
C1_Classification ==
  /\ \A i \in 1..Len(steps) : Classified(steps[i].func)
  /\ \A i \in 1..Len(app.routes) :
       app.routes[i].endpoint = "step" =>
         /\ NamesOf(SelectSeq(app.routes[i].params, IsPathParam))
              = NamesOf(SelectSeq(app.routes[i].func, IsRequired))
         /\ NamesOf(SelectSeq(app.routes[i].params, IsQueryParam))
              = NamesOf(SelectSeq(app.routes[i].func, IsOptional))

\* (a, b=1, prompt=None) is registered and mounted with path [a] and query [b]
C1_Witness ==
  /\ app.status = "ok"
  /\ \E i \in 1..Len(app.routes) :
       /\ app.routes[i].func = with_query
       /\ NamesOf(SelectSeq(app.routes[i].params, IsPathParam)) = <<"a">>
       /\ NamesOf(SelectSeq(app.routes[i].params, IsQueryParam)) = <<"b">>

\* the path the claim describes: /api/<name>, then /{p} per required parameter
ExpectedPath(step) ==
  <<Lit("api"), Lit(step.name)>>
    \o [i \in 1..Len(SelectSeq(step.func, IsRequired)) |->
          Var(SelectSeq(step.func, IsRequired)[i].name)]

\* C6: after a build every registered step has a route whose path is /api/<name>
\* followed by one /{p} per path parameter in declaration order and nothing for
\* query parameters or `prompt`, also when an optional parameter is declared
\* before a required one.
C6_RoutePath ==
  result.op = "get_app" =>
    /\ app.status = "ok"
    /\ \A i \in 1..Len(steps) : app.routes[i].path = ExpectedPath(steps[i])

\* C8: a build succeeds for every step function, and every handler's signature
\* lists all path parameters before all query parameters.
C8_PathBeforeQuery ==
  result.op = "get_app" =>
    /\ app.status = "ok"
    /\ \A i \in 1..Len(app.routes) :
         app.routes[i].params =
           SelectSeq(app.routes[i].params, IsPathParam)
             \o SelectSeq(app.routes[i].params, IsQueryParam)

NamesUnique(reg) == \A i, j \in 1..Len(reg) : reg[i].name = reg[j].name => i = j

\* C4: a registration under a name already registered fails with
\* DuplicateStepError and leaves the registry as it was; every entry stays the
\* first registration made under its name, and no name is registered twice.
C4_FirstRegistrationKept ==
  /\ [](NamesUnique(steps))
  /\ [][/\ Len(steps') >= Len(steps)
        /\ \A i \in 1..Len(steps) : steps'[i] = steps[i]
        /\ result'.op = "register" =>
             /\ result'.error = "DuplicateStepError" <=> steps' = steps
             /\ result'.error = "" <=>
                  /\ Len(steps') = Len(steps) + 1
                  /\ steps'[Len(steps')].name \notin StepNamesOf(steps)]_vars

\* a second registration under a registered name has just failed
C4_Witness ==
  /\ result.op = "register"
  /\ result.error = "DuplicateStepError"
  /\ Len(steps) >= 1

\* C7: a build does not change the registry; a build of a registry that was built
\* before and has not changed since yields the same routes and the same listing
\* (names, paths, parameter classification), and fails again if it failed before.
C7_BuildIdempotent ==
  [][result'.op = "get_app" =>
       /\ steps' = steps
       /\ (app.status = "ok" /\ Len(app.step_list) = Len(steps)) => app' = app
       /\ app.status = "ValueError" => app'.status = "ValueError"]_vars

\* the application is built from the registry as it is, with two steps
C7_Witness ==
  /\ result.op = "get_app"
  /\ app.status = "ok"
  /\ Len(steps) >= 2
  /\ Len(app.step_list) = Len(steps)

\* C10: the mounted routes never collide: the paths of all routes, the discovery
\* route /api/steps included, are pairwise distinct.
C10_NoCollision ==
  app.status = "ok" =>
    \A i, j \in 1..Len(app.routes) :
      app.routes[i].path = app.routes[j].path => i = j

\* ---- requests
\* the route synthesized for a step handles the request (0: none does)
StepRouteOf(url) ==
  LET i == Dispatch(app.routes, url) IN
  IF i # 0 /\ app.routes[i].endpoint = "step" THEN i ELSE 0

HandledByStep == result.op = "GET" /\ StepRouteOf(result.url) # 0
HandlingRoute == app.routes[StepRouteOf(result.url)]

\* what the step function is to be called with: every parameter of the function
\* under its own name (a required one from its URL segment, an optional one from
\* the query string or else its declared default), and `prompt`
ExpectedBound(route, url, query) ==
  [n \in NonPromptNames(route.func) \cup {"prompt"} |->
     IF n = "prompt" THEN promptStore[route.prompt_id]
     ELSE IF route.func[DeclIndex(route.func, n)].default = Empty
          THEN url[CHOOSE i \in 1..Len(route.path) : route.path[i] = Var(n)]
          ELSE IF n \in DOMAIN query THEN query[n]
               ELSE route.func[DeclIndex(route.func, n)].default]

\* C2: a request that a step's route handles while the step's prompt is stored
\* calls the step function exactly once, every received argument under its own
\* name and `prompt` the prompt stored under the step's prompt_id, and the
\* response is 200 with the function's return value as body.
C2_CalledByName ==
  (HandledByStep /\ promptStore[HandlingRoute.prompt_id] # Absent) =>
    /\ calls = << [step |-> HandlingRoute.step,
                   bound |-> ExpectedBound(HandlingRoute, result.url, result.query)] >>
    /\ result.status = 200
    /\ result.body = ReturnValue(HandlingRoute.step,
                       ExpectedBound(HandlingRoute, result.url, result.query))

\* a function declaring `prompt` first was called with b and a from the URL
C2_Witness ==
  /\ HandledByStep
  /\ HandlingRoute.func = prompt_first
  /\ result.status = 200
  /\ Len(calls) = 1
  /\ calls[1].bound["b"] = "x" /\ calls[1].bound["a"] = "y"
  /\ calls[1].bound["prompt"] \in PromptTexts

\* C3: a request that a step's route handles while no prompt is stored under the
\* step's prompt_id is answered with a server error, PromptNotFoundError, and the
\* step function is not called.
C3_PromptNotFound ==
  (HandledByStep /\ promptStore[HandlingRoute.prompt_id] = Absent) =>
    /\ result.status = 500
    /\ result.error = "PromptNotFoundError"
    /\ calls = <<>>

C3_Witness ==
  /\ HandledByStep
  /\ promptStore[HandlingRoute.prompt_id] = Absent
  /\ result.status = 500

\* C5: GET /api/steps on an application built from the registry as it is returns
\* one {name, path} entry per registered step, in registration order, each path
\* the path of that step's route.
C5_Listing ==
  (/\ result.op = "GET"
   /\ result.url = <<"api", "steps">>
   /\ Len(app.routes) = Len(steps) + 1) =>
    /\ result.status = 200
    /\ result.listing = [i \in 1..Len(steps) |->
                           [name |-> steps[i].name, path |-> app.routes[i].path]]

\* C9: prompts are resolved per invocation. Neither a registration nor a build
\* fails for a prompt that is not stored; a request that a step's route handles
\* fails with PromptNotFoundError exactly when no prompt is stored under the
\* step's prompt_id at that time, and otherwise the function gets the prompt
\* stored at that time, whatever the store held at registration or build.
C9_LazyPrompt ==
  /\ result.op = "register" => result.error \in {"", "DuplicateStepError"}
  /\ result.op = "get_app" => result.error \in {"", "ValueError"}
  /\ HandledByStep =>
       IF promptStore[HandlingRoute.prompt_id] = Absent
       THEN result.error = "PromptNotFoundError"
       ELSE /\ result.error = ""
            /\ Len(calls) = 1
            /\ calls[1].bound["prompt"] = promptStore[HandlingRoute.prompt_id]

\* both steps are registered and built, one prompt is stored and the other is not:
\* the request to the first step succeeded with the stored prompt
C9_Witness ==
  /\ Len(steps) = 2
  /\ promptStore[steps[2].prompt_id] = Absent
  /\ HandledByStep
  /\ HandlingRoute.step = steps[1].name
  /\ result.status = 200
  /\ calls[1].bound["prompt"] = "v2"
====
